---- MODULE Spec2Model ----
(***************************************************************************)
(* QuickCare: the document-consent engine (documents/views.py), the        *)
(* appointment booking path (appointments/views.py, serializers.py) and    *)
(* the doctors' windows, leaves and slot query (doctors/views.py).         *)
(*                                                                         *)
(* The code of each request handler is modelled by operators (what it      *)
(* answers, which row it writes).  Spec runs whole handlers one after the  *)
(* other.  No handler opens a transaction or locks a row, so the           *)
(* specifications named ...Race cut the handlers at their database         *)
(* accesses (the step that reads and decides, the step that writes) and    *)
(* interleave two requests.                                                *)
(***************************************************************************)
EXTENDS Integers, FiniteSets, Sequences, TLC

\* ------------------------------------------------------------------ bounds
\* The clock runs over 0..MaxTime.
MaxTime == 1
\* At most MaxLog access-log rows are ever created.
MaxLog == 1
\* At most MaxAppts appointment rows are ever created.
MaxAppts == 2
\* At most MaxWindows availability rows are ever created.
MaxWindows == 2
\* At most MaxLeaves leave rows are ever created.
MaxLeaves == 1

\* ---------------------------------------------------------------- universe
\* A null column (expires_at, actioned_at, the log's consent reference).
None == -1

Patients == {"pat"}
\* Users that have a DoctorProfile row.
DoctorUsers == {"drA", "drB"}
\* "guest" is authenticated, owns nothing and has no DoctorProfile.
Users == Patients \cup DoctorUsers \cup {"guest"}
\* The users that send consent requests: drB is a doctor who never asks.
Requesters == Users \ {"drB"}
Docs == {"doc"}
\* Request workers: two requests can be in flight at once.
Procs == {"w1", "w2"}
Purposes == {"review", "surgery"}
Times == 0..MaxTime
\* expires_at as a client may send it: absent or null (None), or a time.
ExpiresInputs == Times \cup {None}

STATUS_CHOICES == {"pending", "granted", "revoked", "expired", "rejected"}
\* ConsentActionSerializer.action choices.
ActionChoices == {"granted", "rejected", "revoked"}
\* What a client may send as action: the choices and two values outside them.
ActionInputs == ActionChoices \cup {"expired", "pending"}
\* Primary keys a client may name in the consent-action URL.
ConsentIds == 1..Cardinality(Docs \X (Requesters \cap DoctorUsers))

VARIABLES
    now,          \* timezone.now()
    documents,    \* Document rows: doc -> "absent" | "live" | "deleted" (is_deleted)
    consents,     \* DocumentConsent rows
    accessLog,    \* DocumentAccessLog rows
    nextLogId,    \* the access log's auto-increment primary key
    appointments, \* Appointment rows
    nextApptId,   \* the appointment table's auto-increment primary key
    availability, \* DoctorAvailability rows (weekly windows)
    nextAvailId,  \* their auto-increment primary key
    scanOrder,    \* the window ids in the order the database returns rows that
                  \* ORDER BY leaves equal: unspecified, fixed between writes
    leaves,       \* DoctorLeave rows
    nextLeaveId,  \* their auto-increment primary key
    inflight,     \* per worker: the request it is in the middle of
    last          \* the step just taken: the request, what it read, its response

vars == <<now, documents, consents, accessLog, nextLogId, appointments, nextApptId,
          availability, nextAvailId, scanOrder, leaves, nextLeaveId, inflight, last>>

\* The rows of the documents app, and those of the appointments app.
docVars == <<documents, consents, accessLog, nextLogId>>
apptVars == <<appointments, nextApptId>>
\* The rows of the doctors app: windows and leaves.
schedVars == <<availability, nextAvailId, scanOrder, leaves, nextLeaveId>>

Idle == [pc |-> "idle"]

\* The owner of a document: uploads are stored with owner = the patient.
DocOwner(d) == "pat"

\* DoctorProfile.objects.get(user=user) succeeds.
HasDoctorProfile(u) == u \in DoctorUsers

\* The record of a step; a field a step does not set keeps its default.
\* No row: what a lookup that matched nothing stands for in a step's record.
NoRow ==
    [id |-> 0, document |-> "", doctor |-> "", patient |-> "", status |-> "",
     purpose |-> "", expires_at |-> None, actioned_at |-> None]

\* No window: the same for a lookup of an availability row.
NoWindow ==
    [id |-> 0, doctor |-> "", clinic |-> None, day |-> "", start_time |-> 0,
     end_time |-> 0, slot_duration_minutes |-> 0, is_active |-> FALSE]

\* The record of a step: the request (op, user, doc, cid, action, purpose, expires),
\* the consent row it concerns as it was before the step (before) and as the
\* handler had read it (from: its status; prev: the status a write replaced),
\* the access log's next primary key before the step (logid), the response;
\* for a booking the row it inserted (appt) and the appointment table's next
\* primary key when its duplicate check ran (since); for a slot query its
\* parameters (doctor, date, clinic) and the available_slots it returns (slots);
\* for a list the documents (docs) or consent rows (rows) it returns; for a
\* window delete the slot_id asked for and the row deleted (window).
\* An error response keeps of the request only what its message names.
NoStep ==
    [op |-> "", user |-> "", doc |-> "", cid |-> 0, action |-> "", purpose |-> "",
     expires |-> None, from |-> "", prev |-> "", before |-> NoRow, logid |-> 0,
     appt |-> 0, since |-> 0, doctor |-> "", date |-> 0, clinic |-> None,
     slots |-> <<>>, docs |-> {}, rows |-> {}, slot_id |-> 0, window |-> NoWindow,
     result |-> ""]

\* ------------------------------------------------------ the consent engine
\* Variant: the table also lets a pending consent be revoked.
allowed_transitions_pending_revoked(s) ==
    CASE s = "pending"  -> {"granted", "rejected", "revoked"}
      [] s = "granted"  -> {"revoked"}
      [] s = "rejected" -> {"granted"}
      [] s = "revoked"  -> {"granted"}
      [] OTHER          -> {}

\* Variant: the table has a row for expired, which can be granted again.
allowed_transitions_expired_granted(s) ==
    CASE s = "pending"  -> {"granted", "rejected"}
      [] s = "granted"  -> {"revoked"}
      [] s = "rejected" -> {"granted"}
      [] s = "revoked"  -> {"granted"}
      [] s = "expired"  -> {"granted"}
      [] OTHER          -> {}

allowed_transitions(s) ==
    CASE s = "pending"  -> {"granted", "rejected"}
      [] s = "granted"  -> {"revoked"}
      [] s = "rejected" -> {"granted"}
      [] s = "revoked"  -> {"granted"}
      [] OTHER          -> {}

\* queryset.first() under Meta.ordering = ['-created_at']: the newest row.
First(rows) == CHOOSE r \in rows : \A q \in rows : q.id <= r.id

ConsentById(cid) == CHOOSE r \in consents : r.id = cid

\* DocumentConsent.objects.filter(document=doc, doctor=doctor)
ConsentsFor(d, u) == {r \in consents : r.document = d /\ r.doctor = u}

\* Variant: the granted-consent lookup does not filter on the doctor.
GrantedForAnyDoctor(d, u) ==
    {r \in consents : r.document = d /\ r.status = "granted"}

\* DocumentConsent.objects.filter(document=doc, doctor=doctor, status='granted')
GrantedFor(d, u) == {r \in ConsentsFor(d, u) : r.status = "granted"}

\* consent.expires_at and consent.expires_at < timezone.now()
IsExpired(row, t) == row.expires_at # None /\ row.expires_at < t

\* _get_document_with_access: what the access check decides for user u on d.
\* "owner" and "consent" let the read go on to the log; "expire" writes the
\* expiry and denies; the others are the denial's status code.
AccessDecision(u, d) ==
    IF documents[d] # "live" THEN "404"
    ELSE IF DocOwner(d) = u THEN "owner"
    ELSE IF ~HasDoctorProfile(u) THEN "403"
    ELSE IF GrantedFor(d, u) = {} THEN "403"
    ELSE IF IsExpired(First(GrantedFor(d, u)), now) THEN "expire"
    ELSE "consent"

\* Variant: the expiry is reported and not written.
ExpiredRowNotSaved(cur) == cur

\* consent.status = 'expired'; consent.save(update_fields=['status'])
ExpiredRow(cur) == [cur EXCEPT !.status = "expired"]

\* Variant: the log row is created without its consent reference.
LogEntryNoConsent(id, d, u, consent) ==
    [id |-> id, document |-> d, accessed_by |-> u, consent |-> None]

\* DocumentAccessLog.objects.create(document, accessed_by, consent, ...)
LogEntry(id, d, u, consent) ==
    [id |-> id, document |-> d, accessed_by |-> u, consent |-> consent]

\* Variant: the row is looked up by primary key alone, whoever asks.
PatchDecisionAnyUser(u, cid, action) ==
    LET found == {r \in consents : r.id = cid}
    IN  IF found = {} THEN "404"
        ELSE IF action \notin ActionChoices THEN "400_invalid"
        ELSE IF action \notin allowed_transitions(First(found).status)
             THEN "400_invalid_transition"
        ELSE "200"

\* PatientConsentActionView.patch up to its validation: the response when it
\* stops there, "200" when it goes on to save.
PatchDecision(u, cid, action) ==
    LET found == {r \in consents : r.id = cid /\ r.patient = u}
    IN  IF found = {} THEN "404"
        ELSE IF action \notin ActionChoices THEN "400_invalid"
        ELSE IF action \notin allowed_transitions(First(found).status)
             THEN "400_invalid_transition"
        ELSE "200"

\* Variant: the save leaves actioned_at as it was.
PatchSavedNoActionedAt(cur, mem, action, expires, t) ==
    [cur EXCEPT !.status = action,
                !.expires_at = IF expires # None THEN expires ELSE mem.expires_at]

\* The row as patch saves it.  mem is the row as the handler read it, cur the
\* row as stored when save() runs: save(update_fields=...) writes the in-memory
\* status, actioned_at and expires_at and leaves the other columns.
PatchSaved(cur, mem, action, expires, t) ==
    [cur EXCEPT !.status = action,
                !.actioned_at = t,
                !.expires_at = IF expires # None THEN expires ELSE mem.expires_at]

\* Variant: a granted row is re-requested like any other.
RequestDecisionNoConflict(u, d) ==
    IF ~HasDoctorProfile(u) THEN "403"
    ELSE IF documents[d] # "live" THEN "404"
    ELSE IF ConsentsFor(d, u) # {} THEN "update"
    ELSE "create"

\* ConsentRequestView.post up to its write: the response when it stops there,
\* "update" or "create" for the write it goes on to.
RequestDecision(u, d) ==
    IF ~HasDoctorProfile(u) THEN "403"
    ELSE IF documents[d] # "live" THEN "404"
    ELSE IF ConsentsFor(d, u) # {}
         THEN IF First(ConsentsFor(d, u)).status = "granted" THEN "409" ELSE "update"
    ELSE "create"

\* Variant: the re-request also resets the expiry.
RequestSavedClearsExpiry(cur, purpose) ==
    [cur EXCEPT !.status = "pending", !.purpose = purpose, !.expires_at = None]

\* Variant: the insert is not guarded by the unique constraint.
UniqueTogetherNotEnforced(d, u) == TRUE

\* existing.save(update_fields=['status', 'purpose', 'updated_at'])
RequestSaved(cur, purpose) == [cur EXCEPT !.status = "pending", !.purpose = purpose]

\* unique_together = ('document', 'doctor'): the insert of a second row for
\* the pair fails with an IntegrityError.
UniqueTogether(d, u) == ConsentsFor(d, u) = {}

NewConsent(id, d, u, purpose) ==
    [id |-> id, document |-> d, doctor |-> u, patient |-> DocOwner(d),
     status |-> "pending", purpose |-> purpose, expires_at |-> None,
     actioned_at |-> None]

\* ---------------------------------------------------------------- Init
Init ==
    /\ now = 0
    /\ documents = [d \in Docs |-> "absent"]
    /\ consents = {}
    /\ accessLog = {}
    /\ nextLogId = 1
    /\ appointments = {}
    /\ nextApptId = 1
    /\ availability = {}
    /\ nextAvailId = 1
    /\ scanOrder = <<>>
    /\ leaves = {}
    /\ nextLeaveId = 1
    /\ inflight = [p \in Procs |-> Idle]
    /\ last = NoStep

\* ---------------------------------------------------------------- clock
Tick ==
    /\ now < MaxTime
    /\ now' = now + 1
    /\ last' = [NoStep EXCEPT !.op = "tick"]
    /\ UNCHANGED <<documents, consents, accessLog, nextLogId, inflight, apptVars, schedVars>>

\* ------------------------------------------------------------ documents
\* DocumentListView.post: a document is stored for the patient.
UploadDocument(u, d) ==
    /\ documents[d] = "absent"
    /\ u \in Patients \cup DoctorUsers
    /\ documents' = [documents EXCEPT ![d] = "live"]
    /\ last' = [NoStep EXCEPT !.op = "upload", !.doc = d, !.result = "201"]
    /\ UNCHANGED <<now, consents, accessLog, nextLogId, inflight, apptVars, schedVars>>

\* DocumentDetailView.delete: soft delete, owner only.
DeleteDocument(u, d) ==
    /\ IF documents[d] = "live" /\ DocOwner(d) = u
       THEN /\ documents' = [documents EXCEPT ![d] = "deleted"]
            /\ last' = [NoStep EXCEPT !.op = "delete_doc", !.doc = d, !.result = "200"]
       ELSE /\ UNCHANGED documents
            /\ last' = [NoStep EXCEPT !.op = "delete_doc", !.doc = d, !.result = "404"]
    /\ UNCHANGED <<now, consents, accessLog, nextLogId, inflight, apptVars, schedVars>>

\* ------------------------------------------------- ConsentRequestView.post
RequestConsent(u, d, purpose) ==
    /\ LET dec == RequestDecision(u, d)
           rec == [NoStep EXCEPT !.op = "request", !.user = u, !.doc = d,
                       !.before = IF ConsentsFor(d, u) = {} THEN NoRow
                                  ELSE First(ConsentsFor(d, u))]
           cur == First(ConsentsFor(d, u))
           id == Cardinality(consents) + 1
       IN  CASE dec = "update" ->
                  /\ consents' = (consents \ {cur}) \cup {RequestSaved(cur, purpose)}
                  /\ last' = [rec EXCEPT !.cid = cur.id, !.from = cur.status,
                                         !.prev = cur.status, !.purpose = purpose,
                                         !.result = "200"]
             [] dec = "create" /\ UniqueTogether(d, u) ->
                  /\ consents' = consents \cup {NewConsent(id, d, u, purpose)}
                  /\ last' = [rec EXCEPT !.cid = id, !.purpose = purpose,
                                         !.result = "201"]
             [] dec = "create" /\ ~UniqueTogether(d, u) ->
                  /\ UNCHANGED consents
                  /\ last' = [rec EXCEPT !.result = "500"]
             [] OTHER ->
                  /\ UNCHANGED consents
                  /\ last' = [rec EXCEPT !.result = dec]
    /\ UNCHANGED <<now, documents, accessLog, nextLogId, inflight, apptVars, schedVars>>

\* -------------------------------------------- PatientConsentActionView.patch
PatchConsent(u, cid, action, expires) ==
    /\ LET dec == PatchDecision(u, cid, action)
           rec == [NoStep EXCEPT !.op = "patch", !.user = u, !.cid = cid,
                       !.before = IF dec = "404" THEN NoRow ELSE ConsentById(cid),
                       !.result = dec]
           cur == ConsentById(cid)
       IN  CASE dec = "200" ->
                  /\ consents' = (consents \ {cur}) \cup
                                     {PatchSaved(cur, cur, action, expires, now)}
                  /\ last' = [rec EXCEPT !.action = action, !.expires = expires,
                                         !.from = cur.status, !.prev = cur.status]
             [] dec = "400_invalid_transition" ->
                  /\ UNCHANGED consents
                  /\ last' = [rec EXCEPT !.action = action, !.from = cur.status]
             [] OTHER ->
                  /\ UNCHANGED consents
                  /\ last' = rec
    /\ UNCHANGED <<now, documents, accessLog, nextLogId, inflight, apptVars, schedVars>>

\* ------------------------------------------------- DocumentDetailView.get
ReadDocument(u, d) ==
    /\ LET dec == AccessDecision(u, d)
           rec == [NoStep EXCEPT !.op = "read", !.user = u, !.doc = d,
                       !.before = IF ConsentsFor(d, u) = {} THEN NoRow
                                  ELSE First(ConsentsFor(d, u)),
                       !.logid = nextLogId]
           consent == First(GrantedFor(d, u))
       IN  CASE dec = "owner" ->
                  /\ nextLogId <= MaxLog
                  /\ accessLog' = accessLog \cup {LogEntry(nextLogId, d, u, None)}
                  /\ nextLogId' = nextLogId + 1
                  /\ UNCHANGED consents
                  /\ last' = [rec EXCEPT !.result = "200"]
             [] dec = "consent" ->
                  /\ nextLogId <= MaxLog
                  /\ accessLog' = accessLog \cup {LogEntry(nextLogId, d, u, consent.id)}
                  /\ nextLogId' = nextLogId + 1
                  /\ UNCHANGED consents
                  /\ last' = [rec EXCEPT !.cid = consent.id, !.from = "granted",
                                         !.result = "200"]
             [] dec = "expire" ->
                  /\ consents' = (consents \ {consent}) \cup {ExpiredRow(consent)}
                  /\ UNCHANGED <<accessLog, nextLogId>>
                  /\ last' = [rec EXCEPT !.cid = consent.id, !.from = "granted",
                                         !.prev = "granted", !.result = "403_expired"]
             [] OTHER ->
                  /\ UNCHANGED <<consents, accessLog, nextLogId>>
                  /\ last' = [rec EXCEPT !.result = dec]
    /\ UNCHANGED <<now, documents, inflight, apptVars, schedVars>>

\* ------------------------------------------------ DocumentAccessLogAdmin
\* The admin class turns off add and change; has_delete_permission is not
\* overridden, so the admin's delete view and "delete selected" action remain.
AdminDeleteAccessLog(e) ==
    /\ e \in accessLog
    /\ accessLog' = accessLog \ {e}
    /\ last' = [NoStep EXCEPT !.op = "admin_delete_log", !.doc = e.document,
                              !.result = "deleted"]
    /\ UNCHANGED <<now, documents, consents, nextLogId, inflight, apptVars, schedVars>>

\* -------------------------------------------------------------- the lists
\* Variant: the doctor's list leaves out the documents whose consent has
\* passed its expires_at.
ConsentedDocsUnexpired(u) ==
    {r.document : r \in {q \in consents :
        q.doctor = u /\ q.status = "granted" /\ ~IsExpired(q, now)}}

\* DocumentConsent.objects.filter(doctor=doctor, status='granted')
\* .values_list('document_id', flat=True)
ConsentedDocs(u) ==
    {r.document : r \in {q \in consents : q.doctor = u /\ q.status = "granted"}}

\* DocumentListView.get: a doctor gets the live documents they hold a granted
\* consent for, any other user the live documents they own.
ListDocuments(u) ==
    /\ LET live == {d \in Docs : documents[d] = "live"}
       IN  last' = [NoStep EXCEPT !.op = "list", !.user = u, !.result = "200",
                        !.docs = IF HasDoctorProfile(u)
                                 THEN ConsentedDocs(u) \cap live
                                 ELSE {d \in live : DocOwner(d) = u}]
    /\ UNCHANGED <<now, docVars, inflight, apptVars, schedVars>>

\* PatientConsentListView.get: the consent rows of the patient's documents,
\* narrowed to a status when the query names one.
PatientConsentList(u, status_filter) ==
    /\ last' = [NoStep EXCEPT !.op = "patient_consents", !.user = u, !.result = "200",
                    !.rows = {r \in consents :
                                 /\ r.patient = u
                                 /\ (status_filter # "" => r.status = status_filter)}]
    /\ UNCHANGED <<now, docVars, inflight, apptVars, schedVars>>

\* DoctorConsentListView.get: the consent rows the doctor has asked for.
DoctorConsentList(u) ==
    /\ IF ~HasDoctorProfile(u)
       THEN last' = [NoStep EXCEPT !.op = "doctor_consents", !.user = u,
                         !.result = "404"]
       ELSE last' = [NoStep EXCEPT !.op = "doctor_consents", !.user = u,
                         !.result = "200",
                         !.rows = {r \in consents : r.doctor = u}]
    /\ UNCHANGED <<now, docVars, inflight, apptVars, schedVars>>

\* ------------------------- PatientConsentActionView.patch, step by step
\* Lines 292-314: DocumentConsent.objects.get(...), the validation and the
\* transition check on the row as read.  A rejected request ends here.
PatchRead(p, u, cid, action, expires) ==
    /\ inflight[p] = Idle
    /\ LET dec == PatchDecision(u, cid, action)
           rec == [NoStep EXCEPT !.op = "patch", !.user = u, !.cid = cid,
                       !.before = IF dec = "404" THEN NoRow ELSE ConsentById(cid),
                       !.result = dec]
           mem == ConsentById(cid)
       IN  CASE dec = "200" ->
                  /\ inflight' = [inflight EXCEPT ![p] =
                         [pc |-> "patch_write", user |-> u, action |-> action,
                          expires |-> expires, mem |-> mem]]
                  /\ last' = [rec EXCEPT !.op = "patch_read", !.action = action,
                                         !.from = mem.status, !.result = ""]
             [] dec = "400_invalid_transition" ->
                  /\ UNCHANGED inflight
                  /\ last' = [rec EXCEPT !.action = action, !.from = mem.status]
             [] OTHER ->
                  /\ UNCHANGED inflight
                  /\ last' = rec
    /\ UNCHANGED <<now, docVars, apptVars, schedVars>>

\* Lines 316-322: consent.save(update_fields=[...]) of the in-memory row over
\* the row as it is stored by then.
PatchWrite(p) ==
    /\ inflight[p].pc = "patch_write"
    /\ LET f == inflight[p]
           cur == ConsentById(f.mem.id)
       IN  /\ consents' = (consents \ {cur}) \cup
                              {PatchSaved(cur, f.mem, f.action, f.expires, now)}
           /\ last' = [NoStep EXCEPT !.op = "patch", !.user = f.user, !.cid = cur.id,
                           !.action = f.action, !.expires = f.expires,
                           !.from = f.mem.status, !.prev = cur.status,
                           !.before = cur, !.result = "200"]
    /\ inflight' = [inflight EXCEPT ![p] = Idle]
    /\ UNCHANGED <<now, documents, accessLog, nextLogId, apptVars, schedVars>>

\* ---------------------------------- ConsentRequestView.post, step by step
\* Lines 231-249: the doctor profile, the document, the lookup of the existing
\* row and the already-granted test.  A refused request ends here.
RequestRead(p, u, d, purpose) ==
    /\ inflight[p] = Idle
    /\ LET dec == RequestDecision(u, d)
           rec == [NoStep EXCEPT !.op = "request", !.user = u, !.doc = d,
                       !.before = IF ConsentsFor(d, u) = {} THEN NoRow
                                  ELSE First(ConsentsFor(d, u))]
       IN  CASE dec = "update" ->
                  /\ inflight' = [inflight EXCEPT ![p] =
                         [pc |-> "request_update", user |-> u, doc |-> d,
                          purpose |-> purpose, mem |-> First(ConsentsFor(d, u))]]
                  /\ last' = [rec EXCEPT !.op = "request_read",
                                         !.from = First(ConsentsFor(d, u)).status]
             [] dec = "create" ->
                  /\ inflight' = [inflight EXCEPT ![p] =
                         [pc |-> "request_create", user |-> u, doc |-> d,
                          purpose |-> purpose]]
                  /\ last' = [rec EXCEPT !.op = "request_read"]
             [] OTHER ->
                  /\ UNCHANGED inflight
                  /\ last' = [rec EXCEPT !.result = dec]
    /\ UNCHANGED <<now, docVars, apptVars, schedVars>>

\* Lines 251-254: existing.save(update_fields=['status', 'purpose',
\* 'updated_at']) over the row as it is stored by then.
RequestUpdate(p) ==
    /\ inflight[p].pc = "request_update"
    /\ LET f == inflight[p]
           cur == ConsentById(f.mem.id)
       IN  /\ consents' = (consents \ {cur}) \cup {RequestSaved(cur, f.purpose)}
           /\ last' = [NoStep EXCEPT !.op = "request", !.user = f.user, !.doc = f.doc,
                           !.cid = cur.id, !.from = f.mem.status, !.prev = cur.status,
                           !.purpose = f.purpose, !.before = cur, !.result = "200"]
    /\ inflight' = [inflight EXCEPT ![p] = Idle]
    /\ UNCHANGED <<now, documents, accessLog, nextLogId, apptVars, schedVars>>

\* Lines 256-263: DocumentConsent.objects.create(...).  The unique constraint
\* of the table refuses a second row for the pair: the IntegrityError is not
\* caught and the request is answered 500.
RequestCreate(p) ==
    /\ inflight[p].pc = "request_create"
    /\ LET f == inflight[p]
           id == Cardinality(consents) + 1
           rec == [NoStep EXCEPT !.op = "request", !.user = f.user, !.doc = f.doc,
                       !.before = IF ConsentsFor(f.doc, f.user) = {} THEN NoRow
                                  ELSE First(ConsentsFor(f.doc, f.user))]
       IN  IF UniqueTogether(f.doc, f.user)
           THEN /\ consents' = consents \cup {NewConsent(id, f.doc, f.user, f.purpose)}
                /\ last' = [rec EXCEPT !.cid = id, !.purpose = f.purpose,
                                       !.result = "201"]
           ELSE /\ UNCHANGED consents
                /\ last' = [rec EXCEPT !.result = "500"]
    /\ inflight' = [inflight EXCEPT ![p] = Idle]
    /\ UNCHANGED <<now, documents, accessLog, nextLogId, apptVars, schedVars>>

\* ----------------------------------- DocumentDetailView.get, step by step
\* Lines 157-183: the document, the owner test, the doctor profile, the query
\* for the granted consent and the expiry test on the row as read.  A denied
\* read ends here.
ReadCheck(p, u, d) ==
    /\ inflight[p] = Idle
    /\ LET dec == AccessDecision(u, d)
           rec == [NoStep EXCEPT !.op = "read", !.user = u, !.doc = d,
                       !.before = IF ConsentsFor(d, u) = {} THEN NoRow
                                  ELSE First(ConsentsFor(d, u)),
                       !.logid = nextLogId]
       IN  CASE dec = "owner" ->
                  /\ inflight' = [inflight EXCEPT ![p] =
                         [pc |-> "read_log", user |-> u, doc |-> d, consent |-> None]]
                  /\ last' = [rec EXCEPT !.op = "read_check"]
             [] dec = "consent" ->
                  /\ inflight' = [inflight EXCEPT ![p] =
                         [pc |-> "read_log", user |-> u, doc |-> d,
                          consent |-> First(GrantedFor(d, u)).id]]
                  /\ last' = [rec EXCEPT !.op = "read_check", !.from = "granted"]
             [] dec = "expire" ->
                  /\ inflight' = [inflight EXCEPT ![p] =
                         [pc |-> "read_expire", user |-> u, doc |-> d,
                          consent |-> First(GrantedFor(d, u)).id]]
                  /\ last' = [rec EXCEPT !.op = "read_check", !.from = "granted"]
             [] OTHER ->
                  /\ UNCHANGED inflight
                  /\ last' = [rec EXCEPT !.result = dec]
    /\ UNCHANGED <<now, docVars, apptVars, schedVars>>

\* Lines 184-189: consent.status = 'expired'; consent.save(update_fields=
\* ['status']) over the row as it is stored by then, and the denial.
ReadExpire(p) ==
    /\ inflight[p].pc = "read_expire"
    /\ LET f == inflight[p]
           cur == ConsentById(f.consent)
       IN  /\ consents' = (consents \ {cur}) \cup {ExpiredRow(cur)}
           /\ last' = [NoStep EXCEPT !.op = "read", !.user = f.user, !.doc = f.doc,
                           !.cid = cur.id, !.from = "granted", !.prev = cur.status,
                           !.before = cur, !.logid = nextLogId,
                           !.result = "403_expired"]
    /\ inflight' = [inflight EXCEPT ![p] = Idle]
    /\ UNCHANGED <<now, documents, accessLog, nextLogId, apptVars, schedVars>>

\* Lines 199-206: the access-log row and the document in the response.
ReadLog(p) ==
    /\ inflight[p].pc = "read_log"
    /\ nextLogId <= MaxLog
    /\ LET f == inflight[p]
       IN  /\ accessLog' = accessLog \cup {LogEntry(nextLogId, f.doc, f.user, f.consent)}
           /\ last' = [NoStep EXCEPT !.op = "read", !.user = f.user, !.doc = f.doc,
                           !.cid = IF f.consent = None THEN 0 ELSE f.consent,
                           !.from = IF f.consent = None THEN "" ELSE "granted",
                           !.before = IF f.consent = None THEN NoRow
                                      ELSE ConsentById(f.consent),
                           !.logid = nextLogId, !.result = "200"]
    /\ nextLogId' = nextLogId + 1
    /\ inflight' = [inflight EXCEPT ![p] = Idle]
    /\ UNCHANGED <<now, documents, consents, apptVars, schedVars>>

\* ------------------------------------------------------------ appointments
ActiveStatuses == {"pending", "confirmed"}

\* AppointmentCreateSerializer.validate: the duplicate-slot query.
SlotTaken(doctor, date, time) ==
    \E a \in appointments :
        /\ a.doctor = doctor
        /\ a.appointment_date = date
        /\ a.appointment_time = time
        /\ a.status \in ActiveStatuses

\* Appointment rows about to be inserted by requests in flight.
Booking == Cardinality({p \in Procs : inflight[p].pc = "book_save"})

\* PatientAppointmentListView.post up to serializer.is_valid(): validate runs
\* the duplicate-slot query; an invalid request is answered 400.
BookValidate(p, u, doctor, date, time) ==
    /\ inflight[p] = Idle
    /\ LET rec == [NoStep EXCEPT !.op = "book", !.user = u, !.since = nextApptId]
       IN  IF SlotTaken(doctor, date, time)
           THEN /\ UNCHANGED inflight
                /\ last' = [rec EXCEPT !.result = "400"]
           ELSE /\ nextApptId + Booking <= MaxAppts
                /\ inflight' = [inflight EXCEPT ![p] =
                       [pc |-> "book_save", user |-> u, doctor |-> doctor,
                        date |-> date, time |-> time, since |-> nextApptId]]
                /\ last' = [rec EXCEPT !.op = "book_validate"]
    /\ UNCHANGED <<now, docVars, apptVars, schedVars>>

\* serializer.save(patient=request.user, fee_charged=fee): the insert.  The
\* table has indexes and no unique constraint; status defaults to pending.
BookSave(p) ==
    /\ inflight[p].pc = "book_save"
    /\ LET f == inflight[p]
       IN  /\ appointments' = appointments \cup
                   {[id |-> nextApptId, patient |-> f.user, doctor |-> f.doctor,
                     appointment_date |-> f.date, appointment_time |-> f.time,
                     status |-> "pending"]}
           /\ last' = [NoStep EXCEPT !.op = "book", !.user = f.user,
                           !.appt = nextApptId, !.since = f.since, !.result = "201"]
    /\ nextApptId' = nextApptId + 1
    /\ inflight' = [inflight EXCEPT ![p] = Idle]
    /\ UNCHANGED <<now, docVars, schedVars>>

\* PatientAppointmentDetailView.put: the patient cancels their appointment.
PatientCancel(u, id, new_status) ==
    /\ LET mine == {a \in appointments : a.id = id /\ a.patient = u}
           appt == CHOOSE a \in mine : TRUE
           rec == [NoStep EXCEPT !.op = "cancel", !.user = u, !.appt = id]
       IN  IF mine = {}
           THEN /\ UNCHANGED appointments
                /\ last' = [rec EXCEPT !.result = "404"]
           ELSE IF new_status # "" /\ new_status # "cancelled"
           THEN /\ UNCHANGED appointments
                /\ last' = [rec EXCEPT !.result = "403"]
           ELSE /\ appointments' = (appointments \ {appt}) \cup
                                       {[appt EXCEPT !.status = "cancelled"]}
                /\ last' = [rec EXCEPT !.result = "200"]
    /\ UNCHANGED <<now, docVars, nextApptId, inflight, schedVars>>

\* ------------------------------------------------- doctors: the slot query
\* Times of day are seconds after midnight (a TimeField keeps the seconds),
\* dates are day numbers, day 1 being a Monday.
DAY_CHOICES ==
    <<"monday", "tuesday", "wednesday", "thursday", "friday", "saturday", "sunday">>

\* query_date.strftime('%A').lower()
DayName(date) == DAY_CHOICES[((date - 1) % 7) + 1]

\* str(slot_time)[:5]: the "HH:MM" of a time, written as the number HHMM; the
\* seconds are cut off.
Format(t) == (t \div 3600) * 100 + ((t \div 60) % 60)

\* Variant: a leave blocks only the clinic it is attached to.
OnLeaveSameClinic(doctor, date, clinic_id) ==
    \E l \in leaves :
        /\ l.doctor = doctor /\ l.start_date <= date /\ l.end_date >= date
        /\ l.clinic = clinic_id

\* DoctorLeave.objects.filter(doctor, start_date__lte, end_date__gte).exists();
\* the query's clinic_id takes no part in it.
OnLeave(doctor, date, clinic_id) ==
    \E l \in leaves :
        l.doctor = doctor /\ l.start_date <= date /\ l.end_date >= date

\* Variant: windows switched off (is_active false) are read too.
MatchingWindowsInactiveToo(doctor, date, clinic_id) ==
    {w \in availability :
        /\ w.doctor = doctor /\ w.day = DayName(date)
        /\ (clinic_id # None => w.clinic = clinic_id)}

\* DoctorAvailability.objects.filter(doctor, day=day_name, is_active=True),
\* narrowed to the clinic when clinic_id is given.
MatchingWindows(doctor, date, clinic_id) ==
    {w \in availability :
        /\ w.doctor = doctor /\ w.day = DayName(date) /\ w.is_active
        /\ (clinic_id # None => w.clinic = clinic_id)}

\* Variant: every appointment of the day blocks its time, whatever its status.
booked_times_any_status(doctor, date) ==
    {a.appointment_time : a \in {b \in appointments :
        b.doctor = doctor /\ b.appointment_date = date}}

\* set(Appointment.objects.filter(doctor, appointment_date, status__in=
\* ['pending', 'confirmed']).values_list('appointment_time', flat=True))
booked_times(doctor, date) ==
    {a.appointment_time : a \in {b \in appointments :
        /\ b.doctor = doctor /\ b.appointment_date = date
        /\ b.status \in {"pending", "confirmed"}}}

\* The while loop over one window never ends: delta is zero and the loop
\* condition current + delta <= end holds from the start.
LoopsForever(w) == w.slot_duration_minutes = 0 /\ w.start_time <= w.end_time

\* Variant: the loop stops before a slot that would end exactly at end.
RECURSIVE CandidatesEndExcluded(_, _, _)
CandidatesEndExcluded(current, end, delta) ==
    IF delta > 0 /\ current + delta < end
    THEN <<current>> \o CandidatesEndExcluded(current + delta, end, delta)
    ELSE <<>>

\* The candidate times of one window: while current + delta <= end.
RECURSIVE Candidates(_, _, _)
Candidates(current, end, delta) ==
    IF delta > 0 /\ current + delta <= end
    THEN <<current>> \o Candidates(current + delta, end, delta)
    ELSE <<>>

\* One window's part of available_slots: the candidates not booked, formatted.
RECURSIVE FreeOf(_, _)
FreeOf(cands, booked) ==
    IF cands = <<>> THEN <<>>
    ELSE (IF Head(cands) \in booked THEN <<>> ELSE <<Format(Head(cands))>>)
             \o FreeOf(Tail(cands), booked)

WindowSlots(w, booked) ==
    FreeOf(Candidates(w.start_time, w.end_time, w.slot_duration_minutes * 60), booked)

\* The arrangements of the rows (or ids) of S in a sequence.
Arrangements(S) ==
    {f \in [1..Cardinality(S) -> S] :
        \A i, j \in 1..Cardinality(S) : i # j => f[i] # f[j]}

\* The place of a window in the order the database returns equal rows in.
ScanPos(id) == CHOOSE i \in 1..Len(scanOrder) : scanOrder[i] = id

\* Variant: rows with equal start_time come in an order chosen anew by every
\* query.
OrderingsChosenPerQuery(ws) ==
    {f \in Arrangements(ws) :
        \A i, j \in 1..Cardinality(ws) : i < j => f[i].start_time <= f[j].start_time}

\* The order in which "for avail in qs" visits the windows: Meta.ordering is
\* ['day', 'start_time'] (all rows of a query have one day); rows with equal
\* start_time come in the order the database returns them in, which no clause
\* of the query fixes and which stays the same while the table is not written.
Orderings(ws) ==
    {f \in Arrangements(ws) :
        \A i, j \in 1..Cardinality(ws) : i < j =>
            \/ f[i].start_time < f[j].start_time
            \/ /\ f[i].start_time = f[j].start_time
               /\ ScanPos(f[i].id) < ScanPos(f[j].id)}

\* available_slots: the windows' parts appended in the order visited.
RECURSIVE AvailableSlots(_, _)
AvailableSlots(order, booked) ==
    IF order = <<>> THEN <<>>
    ELSE WindowSlots(Head(order), booked) \o AvailableSlots(Tail(order), booked)

\* DoctorAvailableSlotsView.get up to the loop: the response when it stops
\* there, "loop" when it goes on to generate.
SlotDecision(doctor_id, date, clinic_id) ==
    IF ~HasDoctorProfile(doctor_id) THEN "404"
    ELSE IF date = None THEN "400"
    ELSE IF OnLeave(doctor_id, date, clinic_id) THEN "on_leave"
    ELSE IF MatchingWindows(doctor_id, date, clinic_id) = {} THEN "not_available"
    ELSE "loop"

\* DoctorAvailableSlotsView.get.  A loop that never ends gives no response.
SlotQuery(doctor_id, date, clinic_id) ==
    /\ LET dec == SlotDecision(doctor_id, date, clinic_id)
           ws == MatchingWindows(doctor_id, date, clinic_id)
           rec == [NoStep EXCEPT !.op = "slots", !.doctor = doctor_id,
                       !.date = date, !.clinic = clinic_id]
       IN  CASE dec = "loop" /\ (\E w \in ws : LoopsForever(w)) ->
                  last' = [rec EXCEPT !.result = "no_response"]
             [] dec = "loop" /\ ~(\E w \in ws : LoopsForever(w)) ->
                  \E order \in Orderings(ws) :
                      last' = [rec EXCEPT
                                  !.slots = AvailableSlots(order, booked_times(doctor_id, date)),
                                  !.result = "200"]
             [] dec \in {"on_leave", "not_available"} ->
                  last' = [rec EXCEPT !.result = dec]
             [] OTHER ->
                  last' = [rec EXCEPT !.result = dec]
    /\ UNCHANGED <<now, docVars, apptVars, schedVars, inflight>>

\* ------------------------------------------- doctors: windows and leaves
\* The clinics a doctor is an active member of (ClinicMember rows); clinics
\* are named by their primary key.
ClinicMembers == {<<"drA", 1>>}

\* unique_together = ('doctor', 'clinic', 'day', 'start_time') as the database
\* enforces it: rows whose clinic is null never collide.
WindowUnique(row, others) ==
    \A w \in others :
        ~ (/\ row.clinic # None
           /\ w.doctor = row.doctor /\ w.clinic = row.clinic
           /\ w.day = row.day /\ w.start_time = row.start_time)

\* DoctorAvailabilityView.post: the window of the request body is stored for
\* the doctor.  The serializer checks the field types only.
AddAvailability(u, body) ==
    /\ LET rec == [NoStep EXCEPT !.op = "add_window"]
           row == [id |-> nextAvailId, doctor |-> u, clinic |-> body.clinic,
                   day |-> body.day, start_time |-> body.start_time,
                   end_time |-> body.end_time,
                   slot_duration_minutes |-> body.slot_duration_minutes,
                   is_active |-> body.is_active]
       IN  IF ~HasDoctorProfile(u)
           THEN /\ UNCHANGED <<availability, nextAvailId, scanOrder>>
                /\ last' = [rec EXCEPT !.result = "404"]
           ELSE IF body.clinic # None /\ <<u, body.clinic>> \notin ClinicMembers
           THEN /\ UNCHANGED <<availability, nextAvailId, scanOrder>>
                /\ last' = [rec EXCEPT !.result = "403"]
           ELSE IF ~WindowUnique(row, availability)
           THEN /\ UNCHANGED <<availability, nextAvailId, scanOrder>>
                /\ last' = [rec EXCEPT !.result = "500"]
           ELSE /\ nextAvailId <= MaxWindows
                /\ availability' = availability \cup {row}
                /\ nextAvailId' = nextAvailId + 1
                /\ scanOrder' \in Arrangements({w.id : w \in availability \cup {row}})
                /\ last' = [rec EXCEPT !.result = "201"]
    /\ UNCHANGED <<now, docVars, apptVars, leaves, nextLeaveId, inflight>>

\* DoctorAvailabilityView.put with is_active in the body (partial update).
SetWindowActive(u, slot_id, active) ==
    /\ LET mine == {w \in availability : w.id = slot_id /\ w.doctor = u}
           slot == CHOOSE w \in mine : TRUE
           rec == [NoStep EXCEPT !.op = "put_window"]
       IN  IF ~HasDoctorProfile(u) \/ mine = {}
           THEN /\ UNCHANGED <<availability, scanOrder>>
                /\ last' = [rec EXCEPT !.result = "404"]
           ELSE /\ availability' = (availability \ {slot}) \cup
                                       {[slot EXCEPT !.is_active = active]}
                /\ scanOrder' \in Arrangements({w.id : w \in availability})
                /\ last' = [rec EXCEPT !.result = "200"]
    /\ UNCHANGED <<now, docVars, apptVars, nextAvailId, leaves, nextLeaveId, inflight>>

\* DoctorAvailabilityView.put with start_time and end_time in the body
\* (partial update).  The serializer checks the field types only; the update
\* of a row to the doctor, clinic, day and start_time of another fails on the
\* unique constraint with an IntegrityError.
PutAvailability(u, slot_id, body) ==
    /\ LET mine == {w \in availability : w.id = slot_id /\ w.doctor = u}
           slot == CHOOSE w \in mine : TRUE
           row == [slot EXCEPT !.start_time = body.start_time,
                               !.end_time = body.end_time]
           rec == [NoStep EXCEPT !.op = "put_window"]
       IN  IF ~HasDoctorProfile(u) \/ mine = {}
           THEN /\ UNCHANGED <<availability, scanOrder>>
                /\ last' = [rec EXCEPT !.result = "404"]
           ELSE IF ~WindowUnique(row, availability \ {slot})
           THEN /\ UNCHANGED <<availability, scanOrder>>
                /\ last' = [rec EXCEPT !.result = "500"]
           ELSE /\ availability' = (availability \ {slot}) \cup {row}
                /\ scanOrder' \in Arrangements({w.id : w \in availability})
                /\ last' = [rec EXCEPT !.result = "200"]
    /\ UNCHANGED <<now, docVars, apptVars, nextAvailId, leaves, nextLeaveId, inflight>>

\* Variant: a window is not deleted while a pending or confirmed appointment
\* of the doctor is at a time it generates.
DeleteDecisionRefusesBooked(u, slot_id) ==
    LET mine == {w \in availability : w.id = slot_id /\ w.doctor = u}
    IN  IF ~HasDoctorProfile(u) \/ mine = {} THEN "404"
        ELSE IF \E w \in mine, a \in appointments :
                    /\ a.doctor = u /\ a.status \in {"pending", "confirmed"}
                    /\ DayName(a.appointment_date) = w.day
                    /\ LET c == Candidates(w.start_time, w.end_time,
                                          w.slot_duration_minutes * 60)
                       IN  \E i \in 1..Len(c) : c[i] = a.appointment_time
             THEN "409"
        ELSE "204"

\* DoctorAvailabilityView.delete up to slot.delete(): the response when it
\* stops there, "204" when it goes on to delete.
DeleteDecision(u, slot_id) ==
    LET mine == {w \in availability : w.id = slot_id /\ w.doctor = u}
    IN  IF ~HasDoctorProfile(u) \/ mine = {} THEN "404" ELSE "204"

\* DoctorAvailabilityView.delete: the row is deleted; no other table has a
\* foreign key to it.
DeleteAvailability(u, slot_id) ==
    /\ LET mine == {w \in availability : w.id = slot_id /\ w.doctor = u}
           dec == DeleteDecision(u, slot_id)
           rec == [NoStep EXCEPT !.op = "delete_window", !.user = u,
                       !.slot_id = slot_id, !.result = dec]
       IN  IF dec # "204"
           THEN /\ UNCHANGED <<availability, scanOrder>>
                /\ last' = rec
           ELSE /\ availability' = availability \ mine
                /\ scanOrder' \in Arrangements({w.id : w \in availability \ mine})
                /\ last' = [rec EXCEPT !.window = CHOOSE w \in mine : TRUE]
    /\ UNCHANGED <<now, docVars, apptVars, nextAvailId, leaves, nextLeaveId, inflight>>

\* DoctorLeaveView.post: the leave of the request body is stored.
AddLeave(u, clinic, start_date, end_date) ==
    /\ LET rec == [NoStep EXCEPT !.op = "add_leave"]
       IN  IF ~HasDoctorProfile(u)
           THEN /\ UNCHANGED <<leaves, nextLeaveId>>
                /\ last' = [rec EXCEPT !.result = "404"]
           ELSE /\ nextLeaveId <= MaxLeaves
                /\ leaves' = leaves \cup
                       {[id |-> nextLeaveId, doctor |-> u, clinic |-> clinic,
                         start_date |-> start_date, end_date |-> end_date]}
                /\ nextLeaveId' = nextLeaveId + 1
                /\ last' = [rec EXCEPT !.result = "201"]
    /\ UNCHANGED <<now, docVars, apptVars, availability, nextAvailId, scanOrder,
                   inflight>>

\* DoctorLeaveView.delete
DeleteLeave(u, leave_id) ==
    /\ LET mine == {l \in leaves : l.id = leave_id /\ l.doctor = u}
           rec == [NoStep EXCEPT !.op = "delete_leave"]
       IN  IF ~HasDoctorProfile(u) \/ mine = {}
           THEN /\ UNCHANGED leaves
                /\ last' = [rec EXCEPT !.result = "404"]
           ELSE /\ leaves' = leaves \ mine
                /\ last' = [rec EXCEPT !.result = "204"]
    /\ UNCHANGED <<now, docVars, apptVars, availability, nextAvailId, scanOrder,
                   nextLeaveId, inflight>>

\* ------------------------------------------- appointments, whole handlers
APPOINTMENT_STATUS_CHOICES ==
    {"pending", "confirmed", "completed", "cancelled", "no_show"}

\* PatientAppointmentListView.post as one step: validate, then save.
BookAppointment(u, doctor, date, time) ==
    /\ LET rec == [NoStep EXCEPT !.op = "book", !.user = u, !.since = nextApptId]
       IN  IF ~HasDoctorProfile(doctor) \/ SlotTaken(doctor, date, time)
           THEN /\ UNCHANGED apptVars
                /\ last' = [rec EXCEPT !.result = "400"]
           ELSE /\ nextApptId <= MaxAppts
                /\ appointments' = appointments \cup
                       {[id |-> nextApptId, patient |-> u, doctor |-> doctor,
                         appointment_date |-> date, appointment_time |-> time,
                         status |-> "pending"]}
                /\ nextApptId' = nextApptId + 1
                /\ last' = [rec EXCEPT !.appt = nextApptId, !.result = "201"]
    /\ UNCHANGED <<now, docVars, schedVars, inflight>>

\* DoctorAppointmentDetailView.put with status in the body: any status of the
\* choices is saved.
DoctorUpdateAppointment(u, id, new_status) ==
    /\ LET mine == {a \in appointments : a.id = id /\ a.doctor = u}
           appt == CHOOSE a \in mine : TRUE
           rec == [NoStep EXCEPT !.op = "doctor_put", !.appt = id]
       IN  IF ~HasDoctorProfile(u) \/ mine = {}
           THEN /\ UNCHANGED appointments
                /\ last' = [rec EXCEPT !.result = "404"]
           ELSE IF new_status \notin APPOINTMENT_STATUS_CHOICES
           THEN /\ UNCHANGED appointments
                /\ last' = [rec EXCEPT !.result = "400"]
           ELSE /\ appointments' = (appointments \ {appt}) \cup
                                       {[appt EXCEPT !.status = new_status]}
                /\ last' = [rec EXCEPT !.result = "200"]
    /\ UNCHANGED <<now, docVars, nextApptId, schedVars, inflight>>

\* ------------------------------------------------------------------ Next
Next ==
    \/ Tick
    \/ \E u \in Users, d \in Docs : UploadDocument(u, d)
    \/ \E u \in Users, d \in Docs : DeleteDocument(u, d)
    \/ \E u \in Requesters, d \in Docs, pu \in Purposes : RequestConsent(u, d, pu)
    \/ \E u \in Users, c \in ConsentIds, a \in ActionInputs, e \in ExpiresInputs :
          PatchConsent(u, c, a, e)
    \/ \E u \in Users, d \in Docs : ReadDocument(u, d)
    \/ \E e \in accessLog : AdminDeleteAccessLog(e)

Spec == Init /\ [][Next]_vars

\* Two patient actions in flight, after the document was uploaded and the
\* consent requested.
NextPatchRace ==
    \/ \E u \in Patients, d \in Docs : UploadDocument(u, d)
    \/ \E u \in Requesters, d \in Docs : RequestConsent(u, d, "review")
    \/ \E p \in Procs, u \in Users, c \in ConsentIds, a \in ActionChoices :
          PatchRead(p, u, c, a, None)
    \/ \E p \in Procs : PatchWrite(p)

SpecPatchRace == Init /\ [][NextPatchRace]_vars

\* Two consent requests of the doctor in flight; the patient acts in between.
NextRequestRace ==
    \/ \E u \in Patients, d \in Docs : UploadDocument(u, d)
    \/ \E p \in Procs, u \in Requesters, d \in Docs, pu \in Purposes :
          RequestRead(p, u, d, pu)
    \/ \E p \in Procs : RequestUpdate(p)
    \/ \E p \in Procs : RequestCreate(p)
    \/ \E u \in Patients, c \in ConsentIds, a \in ActionChoices :
          PatchConsent(u, c, a, None)

SpecRequestRace == Init /\ [][NextRequestRace]_vars

\* Reads in flight while the patient acts, the doctor asks again and time
\* passes.
NextReadRace ==
    \/ Tick
    \/ \E u \in Patients, d \in Docs : UploadDocument(u, d)
    \/ \E u \in Requesters, d \in Docs : RequestConsent(u, d, "review")
    \/ \E u \in Patients, c \in ConsentIds, a \in ActionChoices, e \in ExpiresInputs :
          PatchConsent(u, c, a, e)
    \/ \E p \in Procs, u \in Users, d \in Docs : ReadCheck(p, u, d)
    \/ \E p \in Procs : ReadExpire(p)
    \/ \E p \in Procs : ReadLog(p)

SpecReadRace == Init /\ [][NextReadRace]_vars

\* A consent passes its expires_at while the doctor and the patient look at
\* their lists, the patient acts and the doctor asks again and reads.
\* The status query parameter: absent (""), or a status.
ListStatusFilters == {"", "granted", "expired"}

NextExpiry ==
    \/ Tick
    \/ \E u \in Patients, d \in Docs : UploadDocument(u, d)
    \/ \E u \in Patients, d \in Docs : DeleteDocument(u, d)
    \/ \E d \in Docs : RequestConsent("drA", d, "review")
    \/ \E u \in Patients, c \in ConsentIds, a \in ActionChoices, e \in ExpiresInputs :
          PatchConsent(u, c, a, e)
    \/ \E u \in Patients \cup {"drA"}, d \in Docs : ReadDocument(u, d)
    \/ \E u \in Patients \cup {"drA"} : ListDocuments(u)
    \/ \E u \in Patients, f \in ListStatusFilters : PatientConsentList(u, f)
    \/ \E u \in {"drA", "guest"} : DoctorConsentList(u)

SpecExpiry == Init /\ [][NextExpiry]_vars

\* Two bookings in flight.
BookPatients == {"pat", "guest"}
BookDoctors == {"drA"}
BookDates == {1}
BookTimes == {32400, 34200}

NextBookingRace ==
    \/ \E p \in Procs, u \in BookPatients, dr \in BookDoctors, da \in BookDates,
          t \in BookTimes : BookValidate(p, u, dr, da, t)
    \/ \E p \in Procs : BookSave(p)
    \/ \E u \in BookPatients, id \in 1..MaxAppts, st \in {"", "cancelled", "confirmed"} :
          PatientCancel(u, id, st)

SpecBookingRace == Init /\ [][NextBookingRace]_vars

\* The doctor's schedule: windows, leaves, bookings and slot queries.
\* The window bodies sent: a Monday morning 09:00-10:00 at clinic 1, a Monday
\* morning whose times carry seconds (09:00:30-10:00:30) and a Monday window
\* of zero-minute slots.
AvailInputs ==
    {[clinic |-> 1, day |-> "monday", start_time |-> 32400, end_time |-> 36000,
      slot_duration_minutes |-> 30, is_active |-> TRUE],
     [clinic |-> None, day |-> "monday", start_time |-> 32430, end_time |-> 36030,
      slot_duration_minutes |-> 30, is_active |-> TRUE],
     [clinic |-> None, day |-> "monday", start_time |-> 32400, end_time |-> 34200,
      slot_duration_minutes |-> 0, is_active |-> TRUE]}
SlotDoctors == {"drA"}
\* Day 1 is a Monday, day 2 a Tuesday.
SlotDates == {1, 2}
SlotClinics == {None, 1}
\* Bookings are made for 09:00 on day 1.
SlotBookTimes == {32400}
\* The statuses the doctor sets.
SlotDoctorStatuses == {"confirmed", "completed", "no_show"}

NextSlots ==
    \/ \E u \in SlotDoctors, b \in AvailInputs : AddAvailability(u, b)
    \/ \E u \in SlotDoctors, id \in 1..MaxWindows, a \in BOOLEAN :
          SetWindowActive(u, id, a)
    \/ \E u \in SlotDoctors, id \in 1..MaxWindows : DeleteAvailability(u, id)
    \/ \E u \in SlotDoctors, c \in SlotClinics, ed \in SlotDates :
          AddLeave(u, c, 1, ed)
    \/ \E u \in SlotDoctors, id \in 1..MaxLeaves : DeleteLeave(u, id)
    \/ \E dr \in SlotDoctors, t \in SlotBookTimes : BookAppointment("pat", dr, 1, t)
    \/ \E id \in 1..MaxAppts : PatientCancel("pat", id, "cancelled")
    \/ \E u \in SlotDoctors, id \in 1..MaxAppts, st \in SlotDoctorStatuses :
          DoctorUpdateAppointment(u, id, st)
    \/ \E dr \in SlotDoctors \cup {"guest"}, da \in SlotDates \cup {None},
          c \in SlotClinics : SlotQuery(dr, da, c)

SpecSlots == Init /\ [][NextSlots]_vars

\* A patient books, cancels and books again while the doctor updates
\* statuses; the slot query is asked in between.  The window bodies sent: a
\* Monday morning 09:00-10:00 at clinic 1 and a Monday window 09:30-10:30 that
\* overlaps it.
RebookInputs ==
    {[clinic |-> 1, day |-> "monday", start_time |-> 32400, end_time |-> 36000,
      slot_duration_minutes |-> 30, is_active |-> TRUE],
     [clinic |-> None, day |-> "monday", start_time |-> 34200, end_time |-> 37800,
      slot_duration_minutes |-> 30, is_active |-> TRUE]}
RebookTimes == {32400, 34200}

NextRebook ==
    \/ \E u \in SlotDoctors, b \in RebookInputs : AddAvailability(u, b)
    \/ \E dr \in SlotDoctors, t \in RebookTimes : BookAppointment("pat", dr, 1, t)
    \/ \E id \in 1..MaxAppts : PatientCancel("pat", id, "cancelled")
    \/ \E u \in SlotDoctors, id \in 1..MaxAppts, st \in APPOINTMENT_STATUS_CHOICES :
          DoctorUpdateAppointment(u, id, st)
    \/ \E dr \in SlotDoctors, c \in SlotClinics : SlotQuery(dr, 1, c)

SpecRebook == Init /\ [][NextRebook]_vars

\* The doctor stores, changes and deletes windows while a patient books and
\* the slot query is asked.  The window bodies sent: a Monday morning
\* 09:00-10:00 at clinic 1 and a Monday window that ends before it starts
\* (10:00-09:00); the times sent in updates: the same two pairs.
WindowInputs ==
    {[clinic |-> 1, day |-> "monday", start_time |-> 32400, end_time |-> 36000,
      slot_duration_minutes |-> 30, is_active |-> TRUE],
     [clinic |-> None, day |-> "monday", start_time |-> 36000, end_time |-> 32400,
      slot_duration_minutes |-> 30, is_active |-> TRUE]}
PutInputs ==
    {[start_time |-> 32400, end_time |-> 36000],
     [start_time |-> 36000, end_time |-> 32400]}

NextWindows ==
    \/ \E u \in SlotDoctors, b \in WindowInputs : AddAvailability(u, b)
    \/ \E u \in SlotDoctors, id \in 1..MaxWindows, b \in PutInputs :
          PutAvailability(u, id, b)
    \/ \E u \in DoctorUsers, id \in 1..MaxWindows : DeleteAvailability(u, id)
    \/ \E dr \in SlotDoctors, t \in SlotBookTimes : BookAppointment("pat", dr, 1, t)
    \/ \E u \in SlotDoctors, id \in 1..MaxAppts :
          DoctorUpdateAppointment(u, id, "confirmed")
    \/ \E dr \in SlotDoctors : SlotQuery(dr, 1, None)

SpecWindows == Init /\ [][NextWindows]_vars

\* The slot query as a function of the stored rows: the schedule is drawn from
\* the windows, appointments and leaves that requests can store (no request is
\* validated beyond its field types), then queried.
FnWindows ==
    {[clinic |-> IF st = 32430 THEN None ELSE 1, day |-> "monday",
      start_time |-> st, end_time |-> en, slot_duration_minutes |-> d,
      is_active |-> TRUE] :
        st \in {32400, 32430, 33300}, en \in {34200, 36000}, d \in {0, 20, 30}}
FnAppointments ==
    {[patient |-> "pat", doctor |-> "drA", appointment_date |-> 1,
      appointment_time |-> 32400, status |-> st] :
        st \in {"pending", "confirmed", "cancelled"}}
FnLeaves ==
    {[doctor |-> "drA", clinic |-> None, start_date |-> 1, end_date |-> 1],
     [doctor |-> "drA", clinic |-> 1, start_date |-> 1, end_date |-> 2]}

\* An order on request bodies, to number the rows drawn.
WindowBefore(a, b) ==
    \/ a.start_time < b.start_time
    \/ a.start_time = b.start_time /\ a.end_time < b.end_time
    \/ /\ a.start_time = b.start_time /\ a.end_time = b.end_time
       /\ a.slot_duration_minutes < b.slot_duration_minutes
StatusRank(st) == CASE st = "pending" -> 1 [] st = "confirmed" -> 2 [] OTHER -> 3

InitSlotFn ==
    /\ now = 0
    /\ documents = [d \in Docs |-> "absent"]
    /\ consents = {}
    /\ accessLog = {}
    /\ nextLogId = 1
    /\ inflight = [p \in Procs |-> Idle]
    /\ last = NoStep
    /\ \E n \in 0..MaxWindows : \E f \in [1..n -> FnWindows] :
          /\ \A i, j \in 1..n : i < j => WindowBefore(f[i], f[j])
          /\ availability =
                 {[id |-> i, doctor |-> "drA", clinic |-> f[i].clinic, day |-> f[i].day,
                   start_time |-> f[i].start_time, end_time |-> f[i].end_time,
                   slot_duration_minutes |-> f[i].slot_duration_minutes,
                   is_active |-> f[i].is_active] : i \in 1..n}
          /\ \A w \in availability : WindowUnique(w, availability \ {w})
          /\ nextAvailId = n + 1
          /\ scanOrder \in Arrangements(1..n)
    /\ \E n \in 0..MaxAppts : \E f \in [1..n -> FnAppointments] :
          /\ \A i, j \in 1..n : i < j => StatusRank(f[i].status) < StatusRank(f[j].status)
          /\ appointments =
                 {[id |-> i, patient |-> f[i].patient, doctor |-> f[i].doctor,
                   appointment_date |-> f[i].appointment_date,
                   appointment_time |-> f[i].appointment_time,
                   status |-> f[i].status] : i \in 1..n}
          /\ nextApptId = n + 1
    /\ \E n \in 0..MaxLeaves : \E f \in [1..n -> FnLeaves] :
          /\ \A i, j \in 1..n : i < j => f[i].end_date < f[j].end_date
          /\ leaves =
                 {[id |-> i, doctor |-> f[i].doctor, clinic |-> f[i].clinic,
                   start_date |-> f[i].start_date, end_date |-> f[i].end_date] :
                      i \in 1..n}
          /\ nextLeaveId = n + 1

NextSlotFn ==
    \E dr \in SlotDoctors, da \in SlotDates, c \in SlotClinics : SlotQuery(dr, da, c)

SpecSlotFn == InitSlotFn /\ [][NextSlotFn]_vars

\* The slot query as a function of the windows: the stored windows are drawn
\* from Monday and Tuesday windows 09:00-10:00 with and without a clinic,
\* switched on and off, of 20 and 30 minute slots (so that windows tie on
\* start_time), returned by the database in any order; then queried.
QueryWindows ==
    {[clinic |-> c, day |-> dy, start_time |-> 32400, end_time |-> 36000,
      slot_duration_minutes |-> d, is_active |-> ac] :
        c \in SlotClinics, dy \in {"monday", "tuesday"}, d \in {20, 30},
        ac \in BOOLEAN}
QueryAppointments ==
    {[id |-> 1, patient |-> "pat", doctor |-> "drA", appointment_date |-> 1,
      appointment_time |-> 32400, status |-> "pending"]}

\* An order on request bodies, to number the rows drawn.
QueryWindowBefore(a, b) ==
    LET key(w) == (IF w.clinic = None THEN 0 ELSE 1)
                  + (IF w.day = "monday" THEN 0 ELSE 2)
                  + (IF w.slot_duration_minutes = 20 THEN 0 ELSE 4)
                  + (IF w.is_active THEN 0 ELSE 8)
    IN  key(a) < key(b)

InitWindowFn ==
    /\ now = 0
    /\ documents = [d \in Docs |-> "absent"]
    /\ consents = {}
    /\ accessLog = {}
    /\ nextLogId = 1
    /\ inflight = [p \in Procs |-> Idle]
    /\ last = NoStep
    /\ leaves = {}
    /\ nextLeaveId = 1
    /\ \E n \in 0..MaxWindows : \E f \in [1..n -> QueryWindows] :
          /\ \A i, j \in 1..n : i < j => QueryWindowBefore(f[i], f[j])
          /\ availability =
                 {[id |-> i, doctor |-> "drA", clinic |-> f[i].clinic, day |-> f[i].day,
                   start_time |-> f[i].start_time, end_time |-> f[i].end_time,
                   slot_duration_minutes |-> f[i].slot_duration_minutes,
                   is_active |-> f[i].is_active] : i \in 1..n}
          /\ \A w \in availability : WindowUnique(w, availability \ {w})
          /\ nextAvailId = n + 1
          /\ scanOrder \in Arrangements(1..n)
    /\ appointments \in SUBSET QueryAppointments
    /\ nextApptId = Cardinality(appointments) + 1

NextWindowFn ==
    \E dr \in SlotDoctors, da \in SlotDates, c \in SlotClinics : SlotQuery(dr, da, c)

SpecWindowFn == InitWindowFn /\ [][NextWindowFn]_vars

\* ================================================================ claims
\* The consent transition table as the specification states it.
TransitionTable ==
    {<<"pending", "granted">>, <<"pending", "rejected">>, <<"granted", "revoked">>,
     <<"rejected", "granted">>, <<"revoked", "granted">>}

\* The stored consent row with primary key id, NoRow when there is none.
RowNow(id) ==
    IF \E r \in consents : r.id = id THEN CHOOSE r \in consents : r.id = id ELSE NoRow

\* Doctor u holds a consent for d that is granted and not past its expiry.
HoldsConsent(u, d) ==
    \E r \in consents :
        /\ r.document = d /\ r.doctor = u /\ r.status = "granted"
        /\ (r.expires_at = None \/ r.expires_at >= now)

\* Access-log rows created by the step just taken.
NewLogRows == {e \in accessLog : e.id >= last.logid}

\* C2: a requester who is not the owner gets the document (200) only if a
\* consent row for (document, requester as doctor) is granted and its
\* expires_at is null or not yet passed at the check; whenever that is not so
\* (no doctor profile, no row, any other status, expiry passed) the read of an
\* existing document is answered Forbidden.
C2_NonOwnerNeedsGrantedConsent ==
    (last.op = "read" /\ last.user # DocOwner(last.doc)) =>
        /\ last.result = "200" => HoldsConsent(last.user, last.doc)
        /\ (documents[last.doc] = "live" /\ ~HoldsConsent(last.user, last.doc))
               => last.result \in {"403", "403_expired"}
        /\ last.result \in {"200", "403", "403_expired", "404"}

\* A doctor has just been given the document under a granted consent that
\* carries an expiry not yet passed.
C2_Witness ==
    /\ last.op = "read" /\ last.user \in DoctorUsers /\ last.result = "200"
    /\ \E r \in consents : r.doctor = last.user /\ r.status = "granted"
                               /\ r.expires_at # None

\* C3: a patch whose (current status, action) pair is not in the transition
\* table is rejected with the invalid-transition error and leaves the row
\* (status, actioned_at, expires_at) as it was.
C3_InvalidTransitionRejected ==
    (/\ last.op = "patch"
     /\ last.before # NoRow
     /\ last.action \in ActionChoices
     /\ <<last.before.status, last.action>> \notin TransitionTable) =>
        /\ last.result = "400_invalid_transition"
        /\ RowNow(last.cid) = last.before

\* A pending consent was asked to be revoked, was refused and is still pending.
C3_Witness ==
    /\ last.op = "patch" /\ last.result = "400_invalid_transition"
    /\ last.before.status = "pending" /\ last.action = "revoked"
    /\ RowNow(last.cid).status = "pending"

\* C4: a patch by the patient whose (current status, action) pair is in the
\* transition table succeeds, sets status to the action and actioned_at to the
\* time of the action; a patch writes a status only that way: it succeeds for
\* no other pair, and a refused patch leaves the row as it was.
C4_TableTransitionsApplied ==
    (last.op = "patch" /\ last.before # NoRow) =>
        /\ <<last.before.status, last.action>> \in TransitionTable =>
               /\ last.result = "200"
               /\ RowNow(last.cid).status = last.action
               /\ RowNow(last.cid).actioned_at = now
        /\ last.result = "200" =>
               /\ <<last.before.status, last.action>> \in TransitionTable
               /\ RowNow(last.cid).status = last.action
        /\ last.result # "200" => RowNow(last.cid) = last.before

\* A revoked consent has just been granted again by the patient.
C4_Witness ==
    /\ last.op = "patch" /\ last.result = "200"
    /\ last.before.status = "revoked" /\ last.action = "granted"
    /\ RowNow(last.cid).status = "granted" /\ RowNow(last.cid).actioned_at = now

\* C5: a doctor's read of an existing document under a consent that is granted
\* with expires_at in the past is denied, leaves the row expired and creates no
\* access-log row.
C5_ExpiredConsentDenied ==
    (/\ last.op = "read"
     /\ documents[last.doc] = "live"
     /\ last.before.status = "granted"
     /\ last.before.expires_at # None
     /\ last.before.expires_at < now) =>
        /\ last.result = "403_expired"
        /\ RowNow(last.before.id).status = "expired"
        /\ NewLogRows = {} /\ nextLogId = last.logid

\* A read has just found the doctor's granted consent past its expiry.
C5_Witness ==
    /\ last.op = "read" /\ last.user \in DoctorUsers
    /\ last.before.status = "granted" /\ last.before.expires_at # None
    /\ last.before.expires_at < now
    /\ last.result = "403_expired"
    /\ RowNow(last.before.id).status = "expired"

\* C6 as stated: a patch with action granted on an expired consent succeeds and
\* moves it to granted.
C6_ExpiredRegrantSucceeds ==
    (last.op = "patch" /\ last.before.status = "expired" /\ last.action = "granted") =>
        /\ last.result = "200"
        /\ RowNow(last.cid).status = "granted"

\* C6 as amended: a patch with action granted on an expired consent is refused
\* with the invalid-transition error and the row stays expired; an expired
\* consent leaves that state through the doctor's re-request, which makes it
\* pending.
C6_ExpiredRegrantRefused ==
    /\ (last.op = "patch" /\ last.before.status = "expired"
          /\ last.action \in ActionChoices) =>
            /\ last.result = "400_invalid_transition"
            /\ RowNow(last.cid) = last.before
    /\ (last.op = "request" /\ last.before.status = "expired"
          /\ documents[last.doc] = "live") =>
            /\ last.result = "200"
            /\ RowNow(last.cid).status = "pending"

\* The patient has just tried to grant an expired consent.
C6_Witness ==
    /\ last.op = "patch" /\ last.before.status = "expired" /\ last.action = "granted"
    /\ last.result = "400_invalid_transition"
    /\ RowNow(last.cid).status = "expired"

\* C7: after a successful grant that supplies no expires_at the consent's
\* expires_at is null.
C7_RegrantClearsExpiry ==
    (/\ last.op = "patch" /\ last.result = "200"
     /\ last.action = "granted" /\ last.expires = None) =>
        RowNow(last.cid).expires_at = None

\* C8: a successful read creates exactly one access-log row, for the document
\* and the reader, whose consent is the granted consent used (a doctor) or null
\* (the owner); a denied read creates none.
C8_OneLogRowPerSuccessfulRead ==
    last.op = "read" =>
        IF last.result = "200"
        THEN /\ nextLogId = last.logid + 1
             /\ \E e \in accessLog :
                   /\ NewLogRows = {e}
                   /\ e.id = last.logid
                   /\ e.document = last.doc
                   /\ e.accessed_by = last.user
                   /\ IF last.user = DocOwner(last.doc)
                      THEN e.consent = None
                      ELSE \E r \in consents :
                              /\ r.id = e.consent /\ r.document = last.doc
                              /\ r.doctor = last.user /\ r.status = "granted"
        ELSE NewLogRows = {} /\ nextLogId = last.logid

\* A doctor's read has just been logged with the consent it used.
C8_Witness ==
    /\ last.op = "read" /\ last.result = "200" /\ last.user \in DoctorUsers
    /\ \E e \in accessLog : e.id = last.logid /\ e.accessed_by = last.user
                               /\ e.consent = last.cid /\ e.consent # None

\* C9: the access log is append-only: every row of it is still there, with the
\* same fields, after every step.
C9_AccessLogAppendOnly == [][accessLog \subseteq accessLog']_vars

\* C10: two concurrent patient actions on one consent row end as some serial
\* order of the two would: every patch that succeeds makes a transition of the
\* table from the status it replaces (a patch that succeeded on a stale read
\* would have been refused, or would have left another status, in either
\* serial order).
C10_PatchesSerializable ==
    (last.op = "patch" /\ last.result = "200") =>
        <<last.prev, last.action>> \in TransitionTable

\* C1: two booking requests in flight for the same doctor, date and time never
\* both persist a pending appointment: no request inserts a row while a pending
\* row for the slot was inserted after its own duplicate check.
C1_NoDoubleBooking ==
    (last.op = "book" /\ last.result = "201") =>
        ~ \E a, b \in appointments :
            /\ a.id = last.appt
            /\ b.id # a.id /\ b.id >= last.since
            /\ b.doctor = a.doctor
            /\ b.appointment_date = a.appointment_date
            /\ b.appointment_time = a.appointment_time
            /\ a.status = "pending" /\ b.status = "pending"

\* C13: a consent request by a doctor whose row for the document is granted is
\* answered with the already-granted conflict (409) when the document exists,
\* and leaves the row as it was.
C13_AlreadyGrantedConflict ==
    (last.op = "request" /\ last.before.status = "granted") =>
        /\ documents[last.doc] = "live" => last.result = "409"
        /\ last.result \in {"409", "404"}
        /\ RowNow(last.before.id) = last.before

\* A doctor has just asked again for a document they hold a granted consent
\* with an expiry for, and got the conflict.
C13_Witness ==
    /\ last.op = "request" /\ last.result = "409"
    /\ last.before.status = "granted" /\ last.before.expires_at # None
    /\ RowNow(last.before.id) = last.before

\* C14: a consent request by a doctor whose row for an existing document is in
\* any status other than granted answers 200, sets the row's status to pending
\* and its purpose to the one sent, and leaves every other column of the row
\* (document, doctor, patient, expires_at, actioned_at) as it was.
C14_ReRequestFrame ==
    (/\ last.op = "request"
     /\ last.before # NoRow
     /\ last.before.status # "granted"
     /\ documents[last.doc] = "live") =>
        /\ last.result = "200"
        /\ RowNow(last.before.id) =
               [last.before EXCEPT !.status = "pending", !.purpose = last.purpose]

\* A revoked consent that carries an expiry and an action time has just been
\* requested again with another purpose.
C14_Witness ==
    /\ last.op = "request" /\ last.result = "200"
    /\ last.before.status = "revoked"
    /\ last.before.expires_at # None /\ last.before.actioned_at # None
    /\ last.purpose # last.before.purpose
    /\ RowNow(last.before.id).status = "pending"
    /\ RowNow(last.before.id).purpose = last.purpose

C12_OneConsentRowPerPair ==
    \A r, q \in consents :
        (r.document = q.document /\ r.doctor = q.doctor) => r = q

\* Two requests of one doctor found no row; the second insert has just been
\* refused, one row is stored.
C12_Witness ==
    /\ last.op = "request" /\ last.result = "500"
    /\ Cardinality(ConsentsFor(last.doc, last.user)) = 1

\* C11: the expiry write of the access check is one step with its decision:
\* the write that denies a read replaces the status the check had read
\* (granted), never a status another request has committed since the check
\* read the row.
C11_ExpiryAtomicWithDecision ==
    (last.op = "read" /\ last.result = "403_expired") => last.prev = "granted"

\* The elements of a sequence.
Range(seq) == {seq[i] : i \in 1..Len(seq)}

\* The candidate times window w generates.
CandidateSet(w) ==
    Range(Candidates(w.start_time, w.end_time, w.slot_duration_minutes * 60))

\* The windows the slot query just answered was about.
QueriedWindows == MatchingWindows(last.doctor, last.date, last.clinic)

StrictlyAscending(seq) == \A i, j \in 1..Len(seq) : i < j => seq[i] < seq[j]

\* C16: a slot query for a doctor and a date that a leave of the doctor covers
\* answers an empty available_slots with the on-leave message, whatever windows
\* and appointments are stored, whatever clinic the leave carries and whatever
\* clinic_id the query gives.
C16_LeaveBlocksAllClinics ==
    (/\ last.op = "slots"
     /\ \E l \in leaves : /\ l.doctor = last.doctor
                          /\ l.start_date <= last.date /\ last.date <= l.end_date) =>
        /\ last.result = "on_leave"
        /\ last.slots = <<>>

\* A query that names one clinic has just been answered on-leave because of a
\* leave attached to another (or to none), although a window of the day has
\* free slots.
C16_Witness ==
    /\ last.op = "slots" /\ last.result = "on_leave" /\ last.slots = <<>>
    /\ \E l \in leaves : /\ l.doctor = last.doctor
                          /\ l.start_date <= last.date /\ last.date <= l.end_date
    /\ \A l \in leaves : l.clinic # last.clinic
    /\ \E w \in QueriedWindows :
          WindowSlots(w, booked_times(last.doctor, last.date)) # <<>>

\* C17: a time that a window of the query generates and that is the
\* appointment_time of a pending or confirmed appointment of the doctor on the
\* queried date is not in available_slots.
C17_BookedTimeNotListed ==
    (last.op = "slots" /\ last.result = "200") =>
        \A a \in appointments :
            (/\ a.doctor = last.doctor /\ a.appointment_date = last.date
             /\ a.status \in {"pending", "confirmed"}
             /\ \E w \in QueriedWindows : a.appointment_time \in CandidateSet(w)) =>
                Format(a.appointment_time) \notin Range(last.slots)

\* C18: a time T that a window of the query generates, at which appointments of
\* the doctor on the queried date exist but none of them is pending or
\* confirmed, is listed by the slot query (the doctor not being on leave and no
\* window having zero-minute slots).
C18_InactiveAppointmentsFreeSlot ==
    (/\ last.op = "slots"
     /\ ~OnLeave(last.doctor, last.date, last.clinic)
     /\ ~ \E w \in QueriedWindows : LoopsForever(w)) =>
        \A a \in appointments :
            (/\ a.doctor = last.doctor /\ a.appointment_date = last.date
             /\ a.status \in {"cancelled", "completed", "no_show"}
             /\ ~ \E b \in appointments :
                    /\ b.doctor = a.doctor /\ b.appointment_date = a.appointment_date
                    /\ b.appointment_time = a.appointment_time
                    /\ b.status \in {"pending", "confirmed"}
             /\ \E w \in QueriedWindows : a.appointment_time \in CandidateSet(w)) =>
                /\ last.result = "200"
                /\ Format(a.appointment_time) \in Range(last.slots)

\* The time of a cancelled appointment has just been listed again.
C18_Witness ==
    /\ last.op = "slots" /\ last.result = "200"
    /\ \E a \in appointments :
          /\ a.doctor = last.doctor /\ a.appointment_date = last.date
          /\ a.status = "cancelled"
          /\ ~ \E b \in appointments :
                 /\ b.doctor = a.doctor /\ b.appointment_date = a.appointment_date
                 /\ b.appointment_time = a.appointment_time
                 /\ b.status \in {"pending", "confirmed"}
          /\ Format(a.appointment_time) \in Range(last.slots)

\* C19: available_slots is in strictly ascending order, so no time is in it
\* twice, whatever windows match the date.
C19_SlotsAscendingNoDuplicates ==
    (last.op = "slots" /\ last.result = "200") => StrictlyAscending(last.slots)

\* C20: for a query matched by a single window with slot duration d > 0 and
\* start < end, and no booking on the date, available_slots has exactly
\* floor((end - start) / d) entries, strictly ascending, the first the window's
\* start and the last at most end - d.
C20_SingleWindowSlotCount ==
    (/\ last.op = "slots"
     /\ ~OnLeave(last.doctor, last.date, last.clinic)
     /\ booked_times(last.doctor, last.date) = {}
     /\ Cardinality(QueriedWindows) = 1) =>
        \A w \in QueriedWindows :
            (w.slot_duration_minutes > 0 /\ w.start_time < w.end_time) =>
                /\ last.result = "200"
                /\ Len(last.slots) =
                       (w.end_time - w.start_time) \div (w.slot_duration_minutes * 60)
                /\ StrictlyAscending(last.slots)
                /\ Len(last.slots) > 0 =>
                       /\ last.slots[1] = Format(w.start_time)
                       /\ last.slots[Len(last.slots)] <=
                              Format(w.end_time - w.slot_duration_minutes * 60)

\* A single window whose last slot ends exactly at end_time has just been
\* listed with that slot.
C20_Witness ==
    /\ last.op = "slots" /\ last.result = "200"
    /\ booked_times(last.doctor, last.date) = {}
    /\ Cardinality(QueriedWindows) = 1
    /\ \E w \in QueriedWindows :
          /\ w.slot_duration_minutes > 0
          /\ (w.end_time - w.start_time) % (w.slot_duration_minutes * 60) = 0
          /\ Len(last.slots) >= 2
          /\ last.slots[Len(last.slots)] =
                 Format(w.end_time - w.slot_duration_minutes * 60)

\* A window that generates no slot: zero-minute slots, or start_time not before
\* end_time.
Degenerate(w) == w.slot_duration_minutes = 0 \/ w.start_time >= w.end_time

\* C21: a slot query over stored windows of which one has zero-minute slots or
\* a start_time not before its end_time is answered normally (200 with the
\* list), and when every window of the query is such a window the list is
\* empty.
C21_DegenerateWindowsAnswered ==
    (/\ last.op = "slots"
     /\ ~OnLeave(last.doctor, last.date, last.clinic)
     /\ \E w \in QueriedWindows : Degenerate(w)) =>
        /\ last.result = "200"
        /\ (\A w \in QueriedWindows : Degenerate(w)) => last.slots = <<>>

\* C24: whatever bookings, patient cancellations and doctor status updates
\* have been made, no two appointments of one doctor at one date and time are
\* both pending or confirmed.
C24_OneActiveAppointmentPerSlot ==
    \A dr \in SlotDoctors, da \in SlotDates, t \in RebookTimes :
        Cardinality({a \in appointments :
            /\ a.doctor = dr /\ a.appointment_date = da /\ a.appointment_time = t
            /\ a.status \in ActiveStatuses}) <= 1

\* C25: the appointment a booking has just created is at a date on which the
\* doctor is not on leave and at a time that an active window of the doctor
\* for that weekday generates.
C25_BookingWithinListedSlots ==
    (last.op = "book" /\ last.result = "201") =>
        \A a \in appointments :
            a.id = last.appt =>
                /\ ~OnLeave(a.doctor, a.appointment_date, None)
                /\ \E w \in MatchingWindows(a.doctor, a.appointment_date, None) :
                      a.appointment_time \in CandidateSet(w)

\* C28: no two stored windows have the same doctor, clinic, day and
\* start_time, a missing clinic counting as a clinic value.
C28_OneWindowPerStart ==
    \A v, w \in availability :
        (/\ v.doctor = w.doctor /\ v.clinic = w.clinic
         /\ v.day = w.day /\ v.start_time = w.start_time) => v.id = w.id

\* C30: a consent re-request never replaces a granted status: the status its
\* write overwrites is not granted, as in either serial order of the
\* re-request and a patient's grant (the re-request after the grant is
\* refused, the re-request before the grant is followed by it).
C30_ReRequestSerializable ==
    (last.op = "request" /\ last.result = "200") => last.prev # "granted"

\* C26: a consent's status becomes expired only in a document read by its
\* doctor; until then a granted consent whose expires_at has passed stays
\* granted through the lists, the patient's actions and the doctor's
\* requests, and its live document is in the doctor's document list.
C26_ExpiryOnlyOnRead ==
    [][/\ \A r \in consents' :
              (r.status = "expired" /\ r \notin consents) =>
                  /\ last'.op = "read"
                  /\ last'.user = r.doctor /\ last'.doc = r.document
       /\ (last'.op = "list" /\ HasDoctorProfile(last'.user)) =>
              \A r \in consents :
                  (/\ r.doctor = last'.user /\ r.status = "granted"
                   /\ IsExpired(r, now) /\ documents[r.document] = "live") =>
                      /\ r \in consents'
                      /\ r.document \in last'.docs]_vars

\* The doctor's document list has just shown a document whose granted consent
\* passed its expires_at.
C26_Witness ==
    /\ last.op = "list" /\ last.user = "drA"
    /\ \E r \in consents :
          /\ r.doctor = "drA" /\ r.status = "granted" /\ IsExpired(r, now)
          /\ r.document \in last.docs

\* C27: every stored availability window has its start_time before its
\* end_time.
C27_WindowsStartBeforeEnd ==
    \A w \in availability : w.start_time < w.end_time

\* The appointments of the doctor that are pending or confirmed at a time
\* window w generates.
BookedIn(w) ==
    {a \in appointments :
        /\ a.doctor = w.doctor /\ a.status \in {"pending", "confirmed"}
        /\ DayName(a.appointment_date) = w.day
        /\ a.appointment_time \in CandidateSet(w)}

\* C29: a doctor's delete of one of their windows is answered 204 whatever
\* appointments are booked in it, removes that row alone and leaves every
\* appointment row as it was; a slot query never lists the time of a booked
\* appointment that no stored window of the query generates any more.
C29_WindowDeleteLeavesAppointments ==
    [][/\ (/\ last'.op = "delete_window"
           /\ \E w \in availability : w.id = last'.slot_id /\ w.doctor = last'.user) =>
              /\ last'.result = "204"
              /\ last'.window \in availability
              /\ last'.window.id = last'.slot_id
              /\ availability' = availability \ {last'.window}
              /\ appointments' = appointments
       /\ (last'.op = "slots" /\ last'.result = "200") =>
              \A a \in appointments :
                  (/\ a.doctor = last'.doctor /\ a.appointment_date = last'.date
                   /\ a.status \in {"pending", "confirmed"}
                   /\ ~ \E w \in availability :
                         /\ w.doctor = a.doctor /\ w.day = DayName(a.appointment_date)
                         /\ w.is_active
                         /\ \E t \in CandidateSet(w) :
                               Format(t) = Format(a.appointment_time)) =>
                      Format(a.appointment_time) \notin Range(last'.slots)]_vars

\* A window has just been deleted in which an appointment is booked; the
\* appointment is still pending or confirmed, at a time no stored window
\* generates.
C29_Witness ==
    /\ last.op = "delete_window" /\ last.result = "204"
    /\ last.window \notin availability
    /\ \E a \in BookedIn(last.window) :
          ~ \E w \in availability :
                /\ w.doctor = a.doctor /\ w.day = DayName(a.appointment_date)
                /\ a.appointment_time \in CandidateSet(w)

\* C22: every entry of available_slots is the "HH:MM" of a time generated by
\* a stored window of the doctor that is active, whose day is the weekday of
\* the queried date and, when clinic_id is given, whose clinic is that
\* clinic; when there is no such window the answer is the normal response
\* with an empty list.
C22_SlotsFromActiveMatchingWindows ==
    (last.op = "slots" /\ HasDoctorProfile(last.doctor) /\ last.date # None) =>
        LET ws == {w \in availability :
                      /\ w.doctor = last.doctor /\ w.is_active
                      /\ w.day = DAY_CHOICES[((last.date - 1) % 7) + 1]
                      /\ (last.clinic # None => w.clinic = last.clinic)}
        IN  /\ \A i \in 1..Len(last.slots) :
                  \E w \in ws : \E t \in CandidateSet(w) : last.slots[i] = Format(t)
            /\ ws = {} => /\ last.result \in {"not_available", "on_leave"}
                          /\ last.slots = <<>>

\* A query has just listed slots while a window of the doctor for that
\* weekday is switched off and another is of another clinic than the one
\* asked for.
C22_Witness ==
    /\ last.op = "slots" /\ last.result = "200" /\ last.slots # <<>>
    /\ last.clinic # None
    /\ \E w \in availability :
          /\ w.doctor = last.doctor /\ w.day = DayName(last.date)
          /\ (~w.is_active \/ w.clinic # last.clinic)

====
